---- MODULE Spec2Model ----
(***************************************************************************)
(* Model of peer/peer.go: one process with two threads of control.  The    *)
(* main thread generates the peer name, resolves both addresses, starts    *)
(* the broadcaster goroutine, binds the listen socket and runs the         *)
(* Listener loop.  The goroutine dials the broadcast address and runs the  *)
(* Broadcaster loop.  The operating system and the other peers of the      *)
(* network segment are the environment: they decide whether a call fails,  *)
(* which ephemeral port a dial gets, and which foreign datagrams arrive.   *)
(*                                                                         *)
(* Strings and datagram payloads are strings, one character per byte.      *)
(***************************************************************************)
EXTENDS Integers, Sequences, FiniteSets, TLC

(* ------------------------------ bounds -------------------------------- *)
\* Write attempts of the Broadcaster loop explored.
MaxWrites == 2
\* Datagrams of other peers that arrive at the listen socket.
MaxForeign == 1
\* Failing ReadFromUDP calls explored.
MaxReadErrs == 2

(* -------------------------- program constants ------------------------- *)
commonPort == 2002
BufSize == 1024

\* Values rand.Int() may return (it returns a non-negative int).
RandInts == {0, 907}
\* Local ports the OS may assign to the dialed socket.
EphemeralPorts == {32768, 60999}
OwnIP == "192.168.0.2"
OtherIP == "192.168.0.3"
BroadcastIP == "255.255.255.255"
WildcardIP == ""

NilAddr == [ip |-> "<nil>", port |-> 0]
NoErr == "nil"
ReadErrText == "read udp: error"
WriteErrText == "write udp: error"

(* ------------------------------ strings ------------------------------- *)
\* Strings and byte slices are TLA+ strings: Len, \o and SubSeq apply.
Min(a, b) == IF a < b THEN a ELSE b

DigitChar(d) == SubSeq("0123456789", d + 1, d + 1)

\* The decimal digits of a non-negative integer, most significant first.
RECURSIVE Digits(_)
Digits(k) == IF k < 10 THEN DigitChar(k) ELSE Digits(k \div 10) \o DigitChar(k % 10)

\* strconv.Itoa: a leading '-' for a negative value, then the digits.
Itoa(k) == IF k < 0 THEN "-" \o Digits(0 - k) ELSE Digits(k)

\* s repeated k times
RECURSIVE Repeat(_, _)
Repeat(s, k) ==
    IF k <= 0 THEN ""
    ELSE IF k = 1 THEN s
    ELSE Repeat(s, k \div 2) \o Repeat(s, k - (k \div 2))

\* The zero byte of a fresh buffer, written as a character no payload holds.
ZeroByte == "@"

\* name := "peer-" + strconv.Itoa(rand.Int())
PeerName(r) == "peer-" \o Itoa(r)

WritePayloadTerminated(nm) == nm \o ZeroByte
\* []byte(name), the argument of conn.Write
WritePayload(nm) == nm

BufStringWhole(b, k) == b
\* string(buf[0:n])
BufString(b, k) == SubSeq(b, 1, k)

\* A payload other peers may send: a name, or filler of a given length.
Filler(len) == Repeat("x", len)
ForeignPayloads == {PeerName(5), Filler(BufSize), Filler(BufSize + 1)}
ForeignAddrs == {[ip |-> OtherIP, port |-> 40000]}

(* ------------------------------- state -------------------------------- *)
VARIABLES
    alive,       \* FALSE once log.Fatalf has exited the process
    mpc,         \* position of the main thread
    bpc,         \* position of the broadcaster goroutine ("none": not started)
    name,        \* the peer identity ("" before it is generated)
    bCastAddr,   \* resolved broadcast address, NilAddr before
    listenAddr,  \* resolved listen address, NilAddr before
    bconn,       \* the goroutine's conn: [open, port]
    lconn,       \* main's conn: "none", "open" or "closed"
    queue,       \* datagrams waiting in the listen socket
    buf,         \* the receive buffer ("" before make)
    rn, raddr, rerr,   \* n, addr, err of the last ReadFromUDP
    werr,        \* err of the last conn.Write
    log,         \* the lines each thread has logged so far
    \* history variables, written but never read by the program
    fatal,       \* which startup failure has happened ("none")
    sockOps,     \* the socket operations attempted so far
    sent,        \* one record per conn.Write call, in order
    arrived,     \* every datagram the listen socket accepted, in order
    reads,       \* one record per returned ReadFromUDP call, in order
    binds,       \* number of sockets ListenUDP has bound
    foreign      \* number of foreign datagrams that arrived

vars == <<alive, mpc, bpc, name, bCastAddr, listenAddr, bconn, lconn, queue, buf,
          rn, raddr, rerr, werr, log, fatal, sockOps, sent, arrived, reads,
          binds, foreign>>

mainLocals == <<rn, raddr, rerr, buf>>
history == <<fatal, sockOps, sent, arrived, reads, binds, foreign>>

NoConn == [open |-> FALSE, port |-> 0]
NoDatagram == [payload |-> "", src |-> NilAddr, wid |-> 0 - 1]

Init ==
    /\ alive = TRUE
    /\ mpc = "start"
    /\ bpc = "none"
    /\ name = ""
    /\ bCastAddr = NilAddr
    /\ listenAddr = NilAddr
    /\ bconn = NoConn
    /\ lconn = "none"
    /\ queue = <<>>
    /\ buf = ""
    /\ rn = 0
    /\ raddr = NilAddr
    /\ rerr = NoErr
    /\ werr = NoErr
    /\ log = [t \in {"main", "bcast"} |-> <<>>]
    /\ fatal = "none"
    /\ sockOps = {}
    /\ sent = <<>>
    /\ arrived = <<>>
    /\ reads = <<>>
    /\ binds = 0
    /\ foreign = 0

(* ------------------------------ logging ------------------------------- *)
\* The lines of thread t so far, then its new lines.  The printed stream is
\* an interleaving of the two threads' lines that the scheduler fixes; the
\* program fixes only the order of each thread's own lines.
Printf(t, lines) == log' = [log EXCEPT ![t] = @ \o lines]

FatalfReturns(t, which, before, text) ==
    /\ Printf(t, Append(before, <<"Fatal", text>>))
    /\ fatal' = which
    /\ alive' = alive
\* log.Fatalf after the lines `before`: print the line, then os.Exit(1) ends
\* the whole process.  `which` records the failure.
Fatalf(t, which, before, text) ==
    /\ Printf(t, Append(before, <<"Fatal", text>>))
    /\ fatal' = which
    /\ alive' = FALSE

(* ---------------------------- main thread ----------------------------- *)
\* lines 25-27
Start ==
    /\ alive /\ mpc = "start"
    /\ \E r \in RandInts :
          /\ name' = PeerName(r)
          /\ Printf("main", << <<"I am", name'>> >>)
    /\ mpc' = "resolveBroadcast"
    /\ UNCHANGED <<alive, bpc, bCastAddr, listenAddr, bconn, lconn, queue,
                   mainLocals, werr, history>>

\* lines 30-35
ResolveBroadcast ==
    /\ alive /\ mpc = "resolveBroadcast"
    /\ \E ok \in BOOLEAN :
          IF ok
          THEN /\ bCastAddr' = [ip |-> BroadcastIP, port |-> commonPort]
               /\ Printf("main", << <<"Resolving broadcast address..">>,
                            <<"Resolved", bCastAddr'>> >>)
               /\ mpc' = "go"
               /\ UNCHANGED <<alive, fatal>>
          ELSE /\ Fatalf("main", "resolveBroadcast",
                         << <<"Resolving broadcast address..">> >>,
                         "Error: Failed to resolve broadcast address")
               /\ UNCHANGED <<bCastAddr, mpc>>
    /\ UNCHANGED <<bpc, name, listenAddr, bconn, lconn, queue, mainLocals, werr,
                   sockOps, sent, arrived, reads, binds, foreign>>

\* line 38: go func() { ... }()
Go ==
    /\ alive /\ mpc = "go"
    /\ bpc' = "dial"
    /\ mpc' = "resolveListen"
    /\ UNCHANGED <<alive, name, bCastAddr, listenAddr, bconn, lconn, queue,
                   mainLocals, werr, log, history>>

ResolveListenContinues ==
    /\ alive /\ mpc = "resolveListen"
    /\ \E ok \in BOOLEAN :
          IF ok
          THEN /\ listenAddr' = [ip |-> WildcardIP, port |-> commonPort]
               /\ Printf("main", << <<"Resolving listen address..">>,
                                    <<"Resolved", listenAddr'>> >>)
               /\ UNCHANGED fatal
          ELSE /\ Printf("main", << <<"Resolving listen address..">>,
                       <<"Error", "Error: Failed to resolve listen address">> >>)
               /\ fatal' = "resolveListen"
               /\ UNCHANGED listenAddr
    /\ mpc' = "listen"
    /\ UNCHANGED <<alive, bpc, name, bCastAddr, bconn, lconn, queue, mainLocals,
                   werr, sockOps, sent, arrived, reads, binds, foreign>>
\* lines 59-64
ResolveListen ==
    /\ alive /\ mpc = "resolveListen"
    /\ \E ok \in BOOLEAN :
          IF ok
          THEN /\ listenAddr' = [ip |-> WildcardIP, port |-> commonPort]
               /\ Printf("main", << <<"Resolving listen address..">>,
                            <<"Resolved", listenAddr'>> >>)
               /\ mpc' = "listen"
               /\ UNCHANGED <<alive, fatal>>
          ELSE /\ Fatalf("main", "resolveListen",
                         << <<"Resolving listen address..">> >>,
                         "Error: Failed to resolve listen address")
               /\ UNCHANGED <<listenAddr, mpc>>
    /\ UNCHANGED <<bpc, name, bCastAddr, bconn, lconn, queue, mainLocals, werr,
                   sockOps, sent, arrived, reads, binds, foreign>>

\* lines 67-79: ListenUDP, defer conn.Close(), buf := make([]byte, 1024)
Listen ==
    /\ alive /\ mpc = "listen"
    /\ sockOps' = sockOps \cup {"ListenUDP"}
    /\ \E ok \in BOOLEAN :
          IF ok
          THEN /\ lconn' = "open"
               /\ binds' = binds + 1
               /\ buf' = Repeat(ZeroByte, BufSize)
               /\ Printf("main", << <<"Beginning to listen..">> >>)
               /\ mpc' = "read"
               /\ UNCHANGED <<alive, fatal>>
          ELSE /\ Fatalf("main", "listen", << <<"Beginning to listen..">> >>,
                         "Error: Failed to listen")
               /\ UNCHANGED <<lconn, binds, buf, mpc>>
    /\ UNCHANGED <<bpc, name, bCastAddr, listenAddr, bconn, queue, rn, raddr,
                   rerr, werr, sent, arrived, reads, foreign>>

\* What ReadFromUDP copies into b from a datagram payload p: the first
\* Len(b) bytes of p; the rest of the datagram is discarded.
CopyInto(b, p) ==
    LET k == Min(Len(p), Len(b)) IN SubSeq(p, 1, k) \o SubSeq(b, k + 1, Len(b))

ReadDatagramSkipsOwn ==
    /\ alive /\ mpc = "read" /\ lconn = "open"
    /\ queue # <<>>
    /\ LET dg == Head(queue) IN
          IF dg.payload = name
          THEN UNCHANGED <<buf, rn, raddr, rerr, reads, sockOps, mpc>>
          ELSE /\ buf' = CopyInto(buf, dg.payload)
               /\ rn' = Min(Len(dg.payload), Len(buf))
               /\ raddr' = dg.src
               /\ rerr' = NoErr
               /\ reads' = Append(reads, dg)
               /\ sockOps' = sockOps \cup {"ReadFromUDP"}
               /\ mpc' = "logReceived"
    /\ queue' = Tail(queue)
    /\ UNCHANGED <<alive, bpc, name, bCastAddr, listenAddr, bconn, lconn, werr,
                   log, fatal, sent, arrived, binds, foreign>>
\* line 85, a datagram is waiting: n, addr, err := conn.ReadFromUDP(buf)
ReadDatagram ==
    /\ alive /\ mpc = "read" /\ lconn = "open"
    /\ queue # <<>>
    /\ LET dg == Head(queue) IN
          /\ buf' = CopyInto(buf, dg.payload)
          /\ rn' = Min(Len(dg.payload), Len(buf))
          /\ raddr' = dg.src
          /\ rerr' = NoErr
          /\ reads' = Append(reads, dg)
    /\ queue' = Tail(queue)
    /\ sockOps' = sockOps \cup {"ReadFromUDP"}
    /\ mpc' = "logReceived"
    /\ UNCHANGED <<alive, bpc, name, bCastAddr, listenAddr, bconn, lconn, werr,
                   log, fatal, sent, arrived, binds, foreign>>

\* line 85, the call fails: it returns 0, nil and the error.
ReadError ==
    /\ alive /\ mpc = "read" /\ lconn = "open"
    /\ Len(SelectSeq(reads, LAMBDA d : d = NoDatagram)) < MaxReadErrs
    /\ rn' = 0
    /\ raddr' = NilAddr
    /\ rerr' = ReadErrText
    /\ reads' = Append(reads, NoDatagram)
    /\ sockOps' = sockOps \cup {"ReadFromUDP"}
    /\ mpc' = "logReceived"
    /\ UNCHANGED <<alive, bpc, name, bCastAddr, listenAddr, bconn, lconn, queue,
                   buf, werr, log, fatal, sent, arrived, binds, foreign>>

LogReceivedOnSuccess ==
    /\ alive /\ mpc = "logReceived"
    /\ IF rerr = NoErr
       THEN Printf("main", << <<"Received", BufString(buf, rn), raddr>> >>)
       ELSE UNCHANGED log
    /\ mpc' = IF rerr # NoErr THEN "logReadErr" ELSE "read"
    /\ UNCHANGED <<alive, bpc, name, bCastAddr, listenAddr, bconn, lconn, queue,
                   mainLocals, werr, history>>
\* lines 86-87: the Received line, printed whatever err is, then the test of
\* err
LogReceived ==
    /\ alive /\ mpc = "logReceived"
    /\ Printf("main", << <<"Received", BufString(buf, rn), raddr>> >>)
    /\ mpc' = IF rerr # NoErr THEN "logReadErr" ELSE "read"
    /\ UNCHANGED <<alive, bpc, name, bCastAddr, listenAddr, bconn, lconn, queue,
                   mainLocals, werr, history>>

LogReadErrCloses ==
    /\ alive /\ mpc = "logReadErr"
    /\ Printf("main", << <<"Error", rerr>> >>)
    /\ lconn' = "closed"
    /\ mpc' = "listen"
    /\ UNCHANGED <<alive, bpc, name, bCastAddr, listenAddr, bconn, queue,
                   mainLocals, werr, history>>
\* line 88, and back to the top of the loop
LogReadErr ==
    /\ alive /\ mpc = "logReadErr"
    /\ Printf("main", << <<"Error", rerr>> >>)
    /\ mpc' = "read"
    /\ UNCHANGED <<alive, bpc, name, bCastAddr, listenAddr, bconn, lconn, queue,
                   mainLocals, werr, history>>

(* ----------------------- broadcaster goroutine ------------------------ *)
\* lines 40-44
Dial ==
    /\ alive /\ bpc = "dial"
    /\ sockOps' = sockOps \cup {"DialUDP"}
    /\ \E ok \in BOOLEAN :
          IF ok
          THEN /\ \E p \in EphemeralPorts : bconn' = [open |-> TRUE, port |-> p]
               /\ Printf("bcast", << <<"Dialing broadcast address..">> >>)
               /\ bpc' = "sleep"
               /\ UNCHANGED <<alive, fatal>>
          ELSE /\ Fatalf("bcast", "dial", << <<"Dialing broadcast address..">> >>,
                         "Error: Failed to dial")
               /\ UNCHANGED <<bconn, bpc>>
    /\ UNCHANGED <<mpc, name, bCastAddr, listenAddr, lconn, queue, mainLocals,
                   werr, sent, arrived, reads, binds, foreign>>

SleepRedials ==
    /\ alive /\ bpc = "sleep"
    /\ Len(sent) < MaxWrites
    /\ \E p \in EphemeralPorts : bconn' = [open |-> TRUE, port |-> p]
    /\ bpc' = "broadcast"
    /\ UNCHANGED <<alive, mpc, name, bCastAddr, listenAddr, lconn, queue,
                   mainLocals, werr, log, history>>
\* line 47: time.Sleep(time.Second)
Sleep ==
    /\ alive /\ bpc = "sleep"
    /\ Len(sent) < MaxWrites
    /\ bpc' = "broadcast"
    /\ UNCHANGED <<alive, mpc, name, bCastAddr, listenAddr, bconn, lconn, queue,
                   mainLocals, werr, log, history>>

\* The datagram a write on the dialed socket puts on the wire.
Datagram(payload, k) ==
    [payload |-> payload, src |-> [ip |-> OwnIP, port |-> bconn.port], wid |-> k]

\* A datagram sent to port commonPort of this host reaches the listen socket
\* when one is bound; with none bound the host discards it.
Deliver(dg) ==
    IF lconn = "open"
    THEN /\ queue' = Append(queue, dg)
         /\ arrived' = Append(arrived, dg)
    ELSE UNCHANGED <<queue, arrived>>

\* lines 48-49: log, conn.Write([]byte(name)), and the test of err
Broadcast ==
    /\ alive /\ bpc = "broadcast"
    /\ Printf("bcast", << <<"Broadcasting..">> >>)
    /\ sockOps' = sockOps \cup {"Write"}
    /\ \E ok \in BOOLEAN :
          IF ok
          THEN /\ Deliver(Datagram(WritePayload(name), Len(sent) + 1))
               /\ sent' = Append(sent, [ok |-> TRUE, payload |-> WritePayload(name),
                                        port |-> bconn.port])
               /\ werr' = NoErr
               /\ bpc' = "sleep"
          ELSE /\ sent' = Append(sent, [ok |-> FALSE, payload |-> "",
                                        port |-> bconn.port])
               /\ werr' = WriteErrText
               /\ bpc' = "logWriteErr"
               /\ UNCHANGED <<queue, arrived>>
    /\ UNCHANGED <<alive, mpc, name, bCastAddr, listenAddr, bconn, lconn,
                   mainLocals, fatal, reads, binds, foreign>>

LogWriteErrFatal ==
    /\ alive /\ bpc = "logWriteErr"
    /\ Printf("bcast", << <<"Fatal", werr>> >>)
    /\ alive' = FALSE
    /\ UNCHANGED <<mpc, bpc, name, bCastAddr, listenAddr, bconn, lconn, queue,
                   mainLocals, werr, history>>
\* line 50, and back to the top of the loop
LogWriteErr ==
    /\ alive /\ bpc = "logWriteErr"
    /\ Printf("bcast", << <<"Error", werr>> >>)
    /\ bpc' = "sleep"
    /\ UNCHANGED <<alive, mpc, name, bCastAddr, listenAddr, bconn, lconn, queue,
                   mainLocals, werr, history>>

(* ---------------------------- environment ----------------------------- *)
\* Another peer of the segment broadcasts to port commonPort.
ForeignSend ==
    /\ alive /\ lconn = "open"
    /\ foreign < MaxForeign
    /\ \E p \in ForeignPayloads, a \in ForeignAddrs :
          Deliver([payload |-> p, src |-> a, wid |-> 0])
    /\ foreign' = foreign + 1
    /\ UNCHANGED <<alive, mpc, bpc, name, bCastAddr, listenAddr, bconn, lconn,
                   mainLocals, werr, log, fatal, sockOps, sent, reads, binds>>

(* --------------------------- specification ---------------------------- *)
Next ==
    \/ Start
    \/ ResolveBroadcast
    \/ Go
    \/ ResolveListen
    \/ Listen
    \/ ReadDatagram
    \/ ReadError
    \/ LogReceived
    \/ LogReadErr
    \/ Dial
    \/ Sleep
    \/ Broadcast
    \/ LogWriteErr
    \/ ForeignSend

Spec == Init /\ [][Next]_vars

\* The main thread is scheduled while the process runs: a ReadFromUDP with a
\* datagram waiting returns, and the statements after it are executed.
MainProgress ==
    /\ WF_vars(ReadDatagram)
    /\ WF_vars(LogReceived)
    /\ WF_vars(LogReadErr)

FairSpec == Spec /\ MainProgress

(* ------------------------- derived quantities ------------------------- *)
MainLog == log["main"]
BcastLog == log["bcast"]
Lines(l, kind) == SelectSeq(l, LAMBDA x : x[1] = kind)
ReceivedLines == Lines(MainLog, "Received")
LoopStates == {"read", "logReceived", "logReadErr"}
\* The reads that returned a datagram, in order.
DatagramReads == SelectSeq(reads, LAMBDA d : d # NoDatagram)
\* 1 while a returned read is waiting for its Received line.
Pending == IF mpc = "logReceived" THEN 1 ELSE 0
OwnAddr == [ip |-> OwnIP, port |-> bconn.port]

(* ------------------------------- C1 ----------------------------------- *)
\* C1 (as stated): every identity string the Broadcaster writes is received
\* by the Listener of the same process, the first write included, however
\* the goroutine and main's listen-socket setup interleave.  A datagram that
\* is to be read later is at every moment either already read or waiting in
\* the listen socket: no successful write is ever in neither place.
C1_EveryWriteIsReceivable ==
    \A w \in 1..Len(sent) :
        sent[w].ok =>
            \/ \E i \in 1..Len(reads) :
                  reads[i].wid = w /\ reads[i].payload = sent[w].payload
            \/ \E i \in 1..Len(queue) :
                  queue[i].wid = w /\ queue[i].payload = sent[w].payload

(* ------------------------------- C2 ----------------------------------- *)
\* C2 (as stated): when the resolution of the broadcast address or of the
\* listen address has failed, no socket operation (DialUDP, ListenUDP, Write,
\* ReadFromUDP) has been attempted.
C2_NoSocketOpBeforeResolveFailure ==
    fatal \in {"resolveBroadcast", "resolveListen"} => sockOps = {}

\* C2 (amended): a failed resolution of either address ends the process.
\* After a failed broadcast-address resolution no socket operation has been
\* attempted.  After a failed listen-address resolution the main thread has
\* attempted none (no ListenUDP, no ReadFromUDP); the goroutine, started
\* before that resolution, may already have attempted DialUDP and Write.
C2_ResolveFailure ==
    /\ fatal \in {"resolveBroadcast", "resolveListen"} => ~alive
    /\ fatal = "resolveBroadcast" => sockOps = {}
    /\ fatal = "resolveListen" => sockOps \subseteq {"DialUDP", "Write"}

C2_Witness ==
    /\ fatal = "resolveListen"
    /\ ~alive
    /\ sockOps = {"DialUDP", "Write"}

C4_WriteErrorNotFatal ==
    [][ /\ (bpc = "broadcast" /\ bpc' = "logWriteErr") =>
              /\ alive' /\ bconn' = bconn /\ werr' # NoErr
              /\ ~sent'[Len(sent')].ok
              /\ <<mpc, lconn, queue, mainLocals, MainLog>>'
                    = <<mpc, lconn, queue, mainLocals, MainLog>>
        /\ (bpc = "logWriteErr" /\ BcastLog' # BcastLog) =>
              /\ alive' /\ bconn' = bconn /\ bpc' = "sleep"
              /\ BcastLog' = Append(BcastLog, <<"Error", werr>>)
              /\ <<mpc, lconn, queue, mainLocals, MainLog>>'
                    = <<mpc, lconn, queue, mainLocals, MainLog>>
        /\ \A i \in 1..Len(sent') : sent'[i].port = bconn'.port ]_vars

\* Two consecutive failed writes, both logged, the process still running and
\* the goroutine back at its sleep.
C4_Witness ==
    /\ alive /\ bpc = "sleep"
    /\ Len(sent) >= 2 /\ ~sent[1].ok /\ ~sent[2].ok
    /\ Len(Lines(BcastLog, "Error")) = 2

(* ------------------------------- C5 ----------------------------------- *)
\* C5: a failed ReadFromUDP is never fatal.  The failing call leaves the
\* process running; the main thread logs the error and goes straight back to
\* ReadFromUDP; and the listen socket, once bound, stays open and is never
\* bound a second time.
C5_ReadErrorNotFatal ==
    [][ /\ (mpc = "read" /\ mpc' = "logReceived" /\ rerr' # NoErr) =>
              alive' /\ lconn' = "open"
        /\ (mpc = "logReadErr" /\ MainLog' # MainLog) =>
              /\ alive' /\ mpc' = "read"
              /\ MainLog' = Append(MainLog, <<"Error", rerr>>)
        /\ lconn = "open" => (lconn' = "open" /\ binds' = binds)
        /\ mpc' \in LoopStates => (lconn' = "open" /\ binds' = 1) ]_vars

\* Two consecutive failed reads, both logged, the process still running and
\* the main thread about to read again.
C5_Witness ==
    /\ alive /\ mpc = "read" /\ lconn = "open"
    /\ Len(reads) >= 2 /\ reads[1] = NoDatagram /\ reads[2] = NoDatagram
    /\ Len(Lines(MainLog, "Error")) = 2

(* ------------------------------- C6 ----------------------------------- *)
\* s reads peer-<non-negative integer>: "peer-", then one or more decimal
\* digits and nothing else.
IsPeerName(s) ==
    /\ Len(s) > 5
    /\ SubSeq(s, 1, 5) = "peer-"
    /\ \A i \in 6..Len(s) :
          SubSeq(s, i, i) \in {"0", "1", "2", "3", "4", "5", "6", "7", "8", "9"}

\* C6: once generated, the identity has the form peer-<non-negative integer>
\* and is the one logged at startup as "I am ..." (logged exactly once, as
\* the first line of the main thread); it keeps that value in every later
\* state, and the payload of every successful conn.Write, and of every
\* datagram that write put into the listen socket, is that logged identity.
C6_IdentityFixed ==
    mpc # "start" =>
        /\ IsPeerName(name)
        /\ MainLog[1] = <<"I am", name>>
        /\ Len(Lines(MainLog, "I am")) = 1
        /\ Lines(BcastLog, "I am") = <<>>
        /\ \A w \in 1..Len(sent) : sent[w].ok => sent[w].payload = MainLog[1][2]
        /\ \A i \in 1..Len(arrived) :
              arrived[i].wid > 0 => arrived[i].payload = MainLog[1][2]

\* Two successful writes of a multi-digit identity.
C6_Witness ==
    /\ name = "peer-907"
    /\ Len(sent) = 2 /\ sent[1].ok /\ sent[2].ok
    /\ Len(arrived) >= 1

(* ------------------------------- C7 ----------------------------------- *)
\* C7: the sender address the Listener reports for a datagram of this
\* process's Broadcaster is the address of the dialed socket, with the
\* ephemeral port assigned at dial time; all writes of the Broadcaster go out
\* on that port, so all its datagrams are reported with the same source port.
C7_SourcePortReported ==
    /\ \A w \in 1..Len(sent) : sent[w].port = bconn.port
    /\ \A k \in 1..Len(ReceivedLines) :
          reads[k].wid > 0 =>
              /\ ReceivedLines[k][3] = OwnAddr
              /\ ReceivedLines[k][3].port \in EphemeralPorts
    /\ (mpc = "logReceived" /\ reads[Len(reads)].wid > 0) => raddr = OwnAddr

\* Both writes were received and logged.
C7_Witness ==
    /\ Len(ReceivedLines) >= 2
    /\ \E j, k \in 1..Len(ReceivedLines) :
          /\ reads[j].wid = 1 /\ reads[k].wid = 2
          /\ ReceivedLines[j][3] = ReceivedLines[k][3]

(* ------------------------------- C8 ----------------------------------- *)
\* The Received line ReadFromUDP's caller prints for datagram dg.
LineOf(dg) ==
    <<"Received", SubSeq(dg.payload, 1, Min(Len(dg.payload), BufSize)), dg.src>>

\* C8: every datagram that arrived at the listen socket, from this process
\* or from another peer, is either still waiting in the socket or has been
\* returned by a read, in arrival order, none filtered and none merged with
\* an equal earlier one; and each returned one has its own Received line
\* (the last may still be about to be printed).
C8_NothingDropped ==
    /\ arrived = DatagramReads \o queue
    /\ Len(ReceivedLines) = Len(reads) - Pending
    /\ \A k \in 1..Len(ReceivedLines) :
          reads[k] # NoDatagram => ReceivedLines[k] = LineOf(reads[k])

\* The Received lines printed for datagrams (a failed read prints no address).
SurfacedLines == SelectSeq(ReceivedLines, LAMBDA l : l[3] # NilAddr)

\* ... and while the process keeps running, the k-th datagram to arrive
\* does get its Received line, the k-th such line.
C8_EveryDatagramSurfaced ==
    /\ []C8_NothingDropped
    /\ \A k \in 1..(MaxWrites + MaxForeign) :
          (Len(arrived) >= k) ~>
              (~alive \/ (Len(SurfacedLines) >= k
                           /\ SurfacedLines[k] = LineOf(arrived[k])))

\* The Listener has logged two datagrams of its own Broadcaster with equal
\* payloads and one datagram of another peer.
C8_Witness ==
    /\ Len(Lines(MainLog, "Received")) >= 3
    /\ \E i, j, k \in 1..Len(ReceivedLines) :
          /\ reads[i].wid = 1 /\ reads[j].wid = 2 /\ reads[k].wid = 0
          /\ ReceivedLines[i][2] = name /\ ReceivedLines[j][2] = name
          /\ ReceivedLines[k][3].ip = OtherIP

(* ------------------------------- C9 ----------------------------------- *)
\* C9: a read that takes a datagram longer than the 1024-byte buffer returns
\* no error and n = 1024, and its Received line shows exactly the first 1024
\* bytes; a read that takes a datagram of at most 1024 bytes logs the whole
\* payload and nothing after it.
C9_Truncation ==
    /\ \A k \in 1..Len(ReceivedLines) :
          reads[k] # NoDatagram =>
              ReceivedLines[k][2] =
                  IF Len(reads[k].payload) > 1024
                  THEN SubSeq(reads[k].payload, 1, 1024)
                  ELSE reads[k].payload
    /\ (mpc = "logReceived" /\ reads[Len(reads)] # NoDatagram) =>
          /\ rerr = NoErr
          /\ rn = IF Len(reads[Len(reads)].payload) > 1024
                  THEN 1024 ELSE Len(reads[Len(reads)].payload)

\* An oversized datagram was logged, and a short one after it.
C9_Witness ==
    \E j, k \in 1..Len(ReceivedLines) :
        /\ j < k
        /\ Len(reads[j].payload) = 1025 /\ Len(ReceivedLines[j][2]) = 1024
        /\ reads[k] # NoDatagram /\ Len(reads[k].payload) < 20

(* ------------------------------- C10 ---------------------------------- *)
\* The index in MainLog of its k-th line of the given kind.
RECURSIVE IndexOf(_, _, _)
IndexOf(kind, k, from) ==
    IF MainLog[from][1] = kind
    THEN IF k = 1 THEN from ELSE IndexOf(kind, k - 1, from + 1)
    ELSE IndexOf(kind, k, from + 1)

ErrorReads == SelectSeq(reads, LAMBDA d : d = NoDatagram)
\* 1 while a failed read is waiting for its Error line.
PendingError ==
    IF mpc = "logReadErr" \/ (mpc = "logReceived" /\ rerr # NoErr) THEN 1 ELSE 0

\* C10: every returned ReadFromUDP gets exactly one Received line, built
\* from the first n bytes of the buffer and the returned address, whether or
\* not it returned an error.  For a failed read the line has an empty payload
\* and no address, and the Error line follows it directly in the main
\* thread's output.  So the Received lines number the returned reads, and the
\* Error lines the failed ones.
C10_ReceivedPerRead ==
    /\ Len(ReceivedLines) = Len(reads) - Pending
    /\ Len(Lines(MainLog, "Error")) = Len(ErrorReads) - PendingError
    /\ \A k \in 1..Len(ReceivedLines) :
          reads[k] = NoDatagram => ReceivedLines[k] = <<"Received", "", NilAddr>>
    /\ \A k \in 1..Len(Lines(MainLog, "Error")) :
          LET i == IndexOf("Error", k, 1) IN
              /\ MainLog[i] = <<"Error", ReadErrText>>
              /\ MainLog[i - 1] = <<"Received", "", NilAddr>>
    /\ mpc = "logReceived" =>
          <<"Received", BufString(buf, rn), raddr>> =
              IF reads[Len(reads)] = NoDatagram
              THEN <<"Received", "", NilAddr>> ELSE LineOf(reads[Len(reads)])

\* A failed read and a successful one have both been logged in full.
C10_Witness ==
    /\ mpc = "read"
    /\ Len(ErrorReads) >= 1 /\ Len(DatagramReads) >= 1
    /\ Len(ReceivedLines) = Len(reads)
    /\ Len(Lines(MainLog, "Error")) = Len(ErrorReads)

====
